---- MODULE Spec2Model ----
(***************************************************************************)
(* Model of lib/index.ts of the Socket.IO AWS SQS emitter: the Emitter,    *)
(* the BroadcastOperator, and the publish helper that hands a message to   *)
(* the SNS client.                                                         *)
(*                                                                         *)
(* JavaScript objects that are shared by reference (the Set objects behind *)
(* rooms / exceptRooms and the flags objects) live in heaps, so that a     *)
(* selector that forgot to copy would be visible as a change of a value an *)
(* earlier operator still points to.  A JavaScript Set is a sequence       *)
(* without duplicates, in insertion order, which is the order the spread   *)
(* [...set] puts on the wire.  Strings that the code indexes (namespaces)  *)
(* are sequences of one-character strings.                                 *)
(***************************************************************************)
EXTENDS Integers, Sequences, FiniteSets, TLC

\* ------------------------------------------------------------------ bounds
MaxNspLen == 2
MaxArr == 1
MaxObjects == 3
MaxCalls == 2

\* ------------------------------------------------------------ input domains
Chars == {"/", "c"}
Rooms == {"a", "b"}
Range(s) == {s[i] : i \in 1..Len(s)}
SeqsUpTo(S, n) == UNION {[1..k -> S] : k \in 0..n}

\* namespace strings handed to the constructor and to of()
NspStrings == SeqsUpTo(Chars, MaxNspLen)

\* a room argument is `string | string[]`
StrArg(r) == [isArray |-> FALSE, val |-> r]
ArrArg(a) == [isArray |-> TRUE, val |-> a]
RoomArgs == {StrArg(r) : r \in Rooms} \cup {ArrArg(a) : a \in SeqsUpTo(Rooms, MaxArr)}

\* the namespaces and room arguments the full specification draws from: the
\* empty string and a name without its "/"; a string, the same room as a
\* list, and a list of two
NspSamples == {<<>>, <<"c">>}
RoomSamples == {StrArg("a"), ArrArg(<<"a">>), ArrArg(<<"a", "b">>)}

\* argument values of emit / serverSideEmit, with their typeof tag
StrVal(s) == [t |-> "string", v |-> s]
NumVal(n) == [t |-> "number", v |-> n]
FnVal == [t |-> "function", v |-> "cb"]
\* a Buffer, with its bytes, and an array, with its elements
BufVal(bytes) == [t |-> "buffer", v |-> bytes]
ListVal(elems) == [t |-> "array", v |-> elems]
\* the close argument of disconnectSockets: left out, or a boolean
Undefined == [t |-> "undefined"]
BoolVal(b) == [t |-> "boolean", v |-> b]
CloseArgs == {Undefined, BoolVal(TRUE), BoolVal(FALSE)}
\* serverSideEmit(...args)
ArgLists == {<<>>, <<StrVal("hello"), StrVal("world"), NumVal("1"), StrVal("2")>>,
             <<FnVal>>, <<StrVal("world"), FnVal>>,
             <<FnVal, NumVal("1")>>}
\* emit(ev, ...args)
EmitArgs ==
  {<<>>, <<StrVal("world"), BufVal(<<1, 2>>), ListVal(<<NumVal("1"), StrVal("2")>>)>>}

UID == "emitter"
TopicArn == "arn:socket-io"
\* topics handed to the constructor
Topics == {TopicArn, "arn:other"}
SnsClient == "sns"

\* enum RequestType: declared, and used by no method
RequestType ==
  [SOCKETS |-> 0, ALL_ROOMS |-> 1, REMOTE_JOIN |-> 2, REMOTE_LEAVE |-> 3,
   REMOTE_DISCONNECT |-> 4, REMOTE_FETCH |-> 5, SERVER_SIDE_EMIT |-> 6]

\* faulty variant: socketsLeave is published with the number of
\* RequestType.REMOTE_LEAVE
MessageType_RemoteLeave ==
  [BROADCAST |-> 3, SOCKETS_JOIN |-> 4, SOCKETS_LEAVE |-> 3,
   DISCONNECT_SOCKETS |-> 6, SERVER_SIDE_EMIT |-> 9]

\* MessageType of socket.io-adapter, as index.ts uses it
MessageType ==
  [BROADCAST |-> 3, SOCKETS_JOIN |-> 4, SOCKETS_LEAVE |-> 5,
   DISCONNECT_SOCKETS |-> 6, SERVER_SIDE_EMIT |-> 9]

\* PacketType.EVENT of socket.io-parser
PacketType == [EVENT |-> 2]

\* faulty variant: "disconnecting" left out of the reserved names
RESERVED_EVENTS_Short ==
  {"connect", "connect_error", "disconnect", "newListener", "removeListener"}

RESERVED_EVENTS ==
  {"connect", "connect_error", "disconnect", "disconnecting",
   "newListener", "removeListener"}

\* event names handed to emit
EventNames ==
  {"connect", "connect_error", "disconnect", "disconnecting",
   "newListener", "removeListener", "x"}

\* the emit(ev, ...args) calls the full specification draws from: every name
\* alone, and a reserved and a free name with arguments
EmitInputs ==
  {[ev |-> ev, args |-> <<>>] : ev \in EventNames}
    \cup {[ev |-> ev, args |-> args] : ev \in {"connect", "x"}, args \in EmitArgs}

\* the terminal calls the full specification draws from: every event name
\* alone and a free one with arguments; a room and a list of rooms; close
\* left out and given; no argument, plain arguments and a trailing callback
EmitSamples ==
  {[ev |-> ev, args |-> <<>>] : ev \in EventNames}
    \cup {[ev |-> "x", args |-> args] : args \in EmitArgs}
JoinSamples == {StrArg("a")}
LeaveSamples == {ArrArg(<<"a", "b">>)}
CloseSamples == {Undefined, BoolVal(TRUE)}
AckSamples ==
  {<<>>, <<StrVal("hello"), StrVal("world"), NumVal("1"), StrVal("2")>>,
   <<StrVal("world"), FnVal>>}

VARIABLES
  emitters,   \* heap of Emitter objects
  sets,       \* heap of Set<string> objects (rooms and exceptRooms)
  flagObjs,   \* heap of BroadcastFlags objects
  ops,        \* the BroadcastOperator objects returned to the caller
  sends,      \* the calls of snsClient.send, in order
  calls,      \* the invocations of the async terminal methods
  logs,       \* number of console.log calls
  made        \* history: how each Emitter was made (constructor or of)

vars == <<emitters, sets, flagObjs, ops, sends, calls, logs, made>>

\* ----------------------------------------------------------------- Emitter
\* constructor(snsClient, topicArn, nsp = "/")
NewEmitter(client, topic, nsp) ==
  [snsClient |-> client, topicArn |-> topic, nsp |-> nsp,
   broadcastOptions |-> [nsp |-> nsp, topicArn |-> topic]]

DefaultNsp == <<"/">>

\* of(nsp): (nsp[0] !== "/" ? "/" : "") + nsp ; nsp[0] of "" is undefined
NormalizeNsp(nsp) ==
  (IF nsp = <<>> \/ nsp[1] # "/" THEN <<"/">> ELSE <<>>) \o nsp

\* faulty variant: the namespace is appended to the receiver's
Of_Nested(e, nsp) ==
  NewEmitter(e.snsClient, e.topicArn, e.nsp \o NormalizeNsp(nsp))

Of(e, nsp) == NewEmitter(e.snsClient, e.topicArn, NormalizeNsp(nsp))

\* ------------------------------------------------------- BroadcastOperator
EmptySet == <<>>
EmptyFlags == [k \in {} |-> FALSE]

\* the heaps a selector reads and allocates in
Heap(S, F) == [sets |-> S, flagObjs |-> F]

\* new BroadcastOperator(snsClient, broadcastOptions): the defaults allocate
\* new Set(), new Set() and {} ; bo is the emitter whose broadcastOptions
\* object the operator shares
NewOperator(H, em, e) ==
  [H |-> Heap(H.sets \o <<EmptySet, EmptySet>>, Append(H.flagObjs, EmptyFlags)),
   op |-> [snsClient |-> em.snsClient, bo |-> e,
           rooms |-> Len(H.sets) + 1, exceptRooms |-> Len(H.sets) + 2,
           flags |-> Len(H.flagObjs) + 1]]

\* faulty variant: the set holds only the room added last
SetAdd_Replace(s, r) == <<r>>

\* Set.prototype.add
SetAdd(s, r) == IF r \in Range(s) THEN s ELSE Append(s, r)

RECURSIVE AddEach(_, _)
\* room.forEach((r) => set.add(r))
AddEach(s, arr) ==
  IF arr = <<>> THEN s ELSE AddEach(SetAdd(s, Head(arr)), Tail(arr))

\* faulty variant: only a string argument is added, a list is ignored
AddRoomArg_StringOnly(s, room) ==
  IF room.isArray THEN s ELSE SetAdd(s, room.val)

\* the if (Array.isArray(room)) ... else ... of to and except
AddRoomArg(s, room) ==
  IF room.isArray THEN AddEach(s, room.val) ELSE SetAdd(s, room.val)

\* faulty variant: adds to this.rooms itself instead of a copy
To_InPlace(H, o, room) ==
  [H |-> Heap([H.sets EXCEPT ![o.rooms] = AddRoomArg(@, room)], H.flagObjs),
   op |-> o]

\* to(room): copies this.rooms into a new Set, shares exceptRooms and flags
To(H, o, room) ==
  [H |-> Heap(Append(H.sets, AddRoomArg(H.sets[o.rooms], room)), H.flagObjs),
   op |-> [o EXCEPT !.rooms = Len(H.sets) + 1]]

\* in(room): return this.to(room)
In(H, o, room) == To(H, o, room)

\* faulty variant: the excluded rooms are added to a copy of this.rooms
Except_IntoRooms(H, o, room) ==
  [H |-> Heap(Append(H.sets, AddRoomArg(H.sets[o.rooms], room)), H.flagObjs),
   op |-> [o EXCEPT !.rooms = Len(H.sets) + 1]]

\* except(room): copies this.exceptRooms into a new Set, shares rooms and flags
Except(H, o, room) ==
  [H |-> Heap(Append(H.sets, AddRoomArg(H.sets[o.exceptRooms], room)), H.flagObjs),
   op |-> [o EXCEPT !.exceptRooms = Len(H.sets) + 1]]

\* faulty variant: a key already set keeps its value
ObjectAssign_KeepsFirst(a, b) ==
  [k \in DOMAIN a \cup DOMAIN b |-> IF k \in DOMAIN a THEN a[k] ELSE b[k]]

\* Object.assign({}, a, b)
ObjectAssign(a, b) ==
  [k \in DOMAIN a \cup DOMAIN b |-> IF k \in DOMAIN b THEN b[k] ELSE a[k]]

\* compress(compress)
Compress(H, o, compress) ==
  [H |-> Heap(H.sets, Append(H.flagObjs,
                 ObjectAssign(H.flagObjs[o.flags], [k \in {"compress"} |-> compress]))),
   op |-> [o EXCEPT !.flags = Len(H.flagObjs) + 1]]

\* get volatile()
Volatile(H, o) ==
  [H |-> Heap(H.sets, Append(H.flagObjs,
                 ObjectAssign(H.flagObjs[o.flags], [k \in {"volatile"} |-> TRUE]))),
   op |-> [o EXCEPT !.flags = Len(H.flagObjs) + 1]]

\* ------------------------------------------------------------------ publish
\* notepack's encode, an opaque codec: the bytes stand for the value encoded
Encode(data) == [msgpack |-> data]

\* if (nsp) : a string is truthy unless empty
Truthy(str) == str # <<>>

NspAttr(nsp) ==
  IF Truthy(nsp)
    THEN [k \in {"nsp"} |-> [DataType |-> "String", StringValue |-> nsp]]
    ELSE [k \in {} |-> [DataType |-> "String", StringValue |-> nsp]]

\* if (UID) : the module constant, not the uid argument
UidAttr == [k \in {"uid"} |-> [DataType |-> "String", StringValue |-> UID]]

\* if (data) : the payloads are objects, always truthy
DataAttr(data) ==
  [k \in {"data"} |-> [DataType |-> "Binary", BinaryValue |-> Encode(data)]]

\* the PublishCommand that publish hands to client.send
PublishCommand(client, topic, type, nsp, uid, data) ==
  [client |-> client,
   TopicArn |-> topic,
   Message |-> ToString(type),
   MessageAttributes |-> NspAttr(nsp) @@ UidAttr @@ DataAttr(data)]

\* publish(...): the sequence of client.send calls it makes
Publish(client, topic, type, nsp, uid, data) ==
  <<PublishCommand(client, topic, type, nsp, uid, data)>>

\* faulty variant: no .catch, the rejection of the send reaches the caller
PublishPromise_Propagate(sendStatus) == sendStatus

\* client.send(...).then(debug).catch(console.log): the promise publish returns,
\* as a function of the state of the send
PublishPromise(sendStatus) ==
  CASE sendStatus = "pending"   -> "pending"
    [] sendStatus = "fulfilled" -> "fulfilled"
    [] sendStatus = "rejected"  -> "fulfilled"

\* --------------------------------------------------------- terminal methods
NoError == [message |-> <<>>]
ReservedError(ev) == [message |-> <<"\"", ev, "\" is a reserved event name">>]
AckError == [message |-> <<"Acknowledgements are not supported">>]
SendError == [message |-> <<"send failed">>]

Threw(err) == [threw |-> TRUE, error |-> err, published |-> <<>>]
Published(reqs) == [threw |-> FALSE, error |-> NoError, published |-> reqs]

\* opts: { rooms: [...this.rooms], except: [...this.exceptRooms] }
TargetOpts(H, o) ==
  [rooms |-> H.sets[o.rooms], except |-> H.sets[o.exceptRooms]]

RECURSIVE Flattened(_)
\* the elements of the arrays among args, spliced into the list
Flattened(args) ==
  IF args = <<>> THEN <<>>
  ELSE (IF Head(args).t = "array" THEN Head(args).v ELSE <<Head(args)>>)
         \o Flattened(Tail(args))

\* faulty variant: array arguments are flattened into the packet data
Emit_Flattened(H, E, o, ev, args) ==
  IF ev \in RESERVED_EVENTS
    THEN Threw(ReservedError(ev))
    ELSE LET bo == E[o.bo].broadcastOptions
             packet == [type |-> PacketType.EVENT,
                        data |-> <<StrVal(ev)>> \o Flattened(args),
                        nsp |-> bo.nsp]
             opts == [rooms |-> H.sets[o.rooms],
                      flags |-> H.flagObjs[o.flags],
                      except |-> H.sets[o.exceptRooms]]
         IN Published(Publish(o.snsClient, bo.topicArn, MessageType.BROADCAST,
                              bo.nsp, UID, [packet |-> packet, opts |-> opts]))

\* BroadcastOperator.emit(ev, ...args), up to its await
Emit(H, E, o, ev, args) ==
  IF ev \in RESERVED_EVENTS
    THEN Threw(ReservedError(ev))
    ELSE LET bo == E[o.bo].broadcastOptions
             packet == [type |-> PacketType.EVENT,
                        data |-> <<StrVal(ev)>> \o args,
                        nsp |-> bo.nsp]
             opts == [rooms |-> H.sets[o.rooms],
                      flags |-> H.flagObjs[o.flags],
                      except |-> H.sets[o.exceptRooms]]
         IN Published(Publish(o.snsClient, bo.topicArn, MessageType.BROADCAST,
                              bo.nsp, UID, [packet |-> packet, opts |-> opts]))

\* Array.isArray(rooms) ? rooms : [rooms]
RoomList(rooms) == IF rooms.isArray THEN rooms.val ELSE <<rooms.val>>

\* BroadcastOperator.socketsJoin(rooms), up to its await
SocketsJoin(H, E, o, rooms) ==
  LET bo == E[o.bo].broadcastOptions
  IN Published(Publish(o.snsClient, bo.topicArn, MessageType.SOCKETS_JOIN,
                       bo.nsp, UID,
                       [opts |-> TargetOpts(H, o), rooms |-> RoomList(rooms)]))

\* faulty variant: socketsLeave publishes what socketsJoin publishes
SocketsLeave_AsJoin(H, E, o, rooms) ==
  LET bo == E[o.bo].broadcastOptions
  IN Published(Publish(o.snsClient, bo.topicArn, MessageType.SOCKETS_JOIN,
                       bo.nsp, UID,
                       [opts |-> TargetOpts(H, o), rooms |-> RoomList(rooms)]))

\* BroadcastOperator.socketsLeave(rooms), up to its await
SocketsLeave(H, E, o, rooms) ==
  LET bo == E[o.bo].broadcastOptions
  IN Published(Publish(o.snsClient, bo.topicArn, MessageType.SOCKETS_LEAVE,
                       bo.nsp, UID,
                       [opts |-> TargetOpts(H, o), rooms |-> RoomList(rooms)]))

\* faulty variant: the connection is closed unless told otherwise
CloseOrDefault_True(close) == IF close.t = "undefined" THEN TRUE ELSE close.v

\* the default parameter value: close: boolean = false
CloseOrDefault(close) == IF close.t = "undefined" THEN FALSE ELSE close.v

\* BroadcastOperator.disconnectSockets(close = false), up to its await
DisconnectSockets(H, E, o, close) ==
  LET bo == E[o.bo].broadcastOptions
  IN Published(Publish(o.snsClient, bo.topicArn, MessageType.DISCONNECT_SOCKETS,
                       bo.nsp, UID,
                       [opts |-> TargetOpts(H, o), close |-> CloseOrDefault(close)]))

\* faulty variant: looks at the first argument instead of the last
WithAck_First(args) == args # <<>> /\ args[1].t = "function"

\* typeof args[args.length - 1] === "function"
WithAck(args) == args # <<>> /\ args[Len(args)].t = "function"

\* faulty variant: the first argument is taken for the event name and left
\* out of the packet
ServerSideEmit_DropsName(em, args) ==
  IF WithAck(args)
    THEN Threw(AckError)
    ELSE Published(Publish(em.snsClient, em.broadcastOptions.topicArn,
                           MessageType.SERVER_SIDE_EMIT,
                           em.broadcastOptions.nsp, UID,
                           [packet |-> IF args = <<>> THEN args ELSE Tail(args)]))

\* Emitter.serverSideEmit(...args), up to its await
ServerSideEmit(em, args) ==
  IF WithAck(args)
    THEN Threw(AckError)
    ELSE Published(Publish(em.snsClient, em.broadcastOptions.topicArn,
                           MessageType.SERVER_SIDE_EMIT,
                           em.broadcastOptions.nsp, UID, [packet |-> args]))

\* faulty variant: emit returns nothing, as the other methods do
ReturnValue_Void(method) == "undefined"

\* what the async method returns once its await is over
ReturnValue(method) == IF method = "emit" THEN "true" ELSE "undefined"

\* the sends issued by call c
SendsOf(c) == {i \in 1..Len(sends) : sends[i].call = c}

\* faulty variant: publish does not return the promise of its send, and the
\* method awaits nothing
Awaited_Detached(c) == "fulfilled"

\* the promise of publish that call c awaits: publish returns the promise
\* chained on its client.send
Awaited(c) ==
  IF SendsOf(c) = {} THEN "fulfilled"
  ELSE PublishPromise(sends[CHOOSE i \in SendsOf(c) : \A j \in SendsOf(c) : i <= j].status)

\* ------------------------------------------------------------------ actions
TheHeap == Heap(sets, flagObjs)

\* the number of objects (emitters, operators) and calls made so far is bounded
Budget == Len(emitters) + Len(ops) + Len(calls) < MaxObjects

Init ==
  /\ emitters = <<NewEmitter(SnsClient, TopicArn, DefaultNsp)>>
  /\ sets = <<>>
  /\ flagObjs = <<>>
  /\ ops = <<>>
  /\ sends = <<>>
  /\ calls = <<>>
  /\ logs = 0
  /\ made = <<[via |-> "new", from |-> 0, arg |-> DefaultNsp]>>

\* a selector returned the operator r.op, having allocated r.H
Obtain(r) ==
  /\ Budget
  /\ sets' = r.H.sets
  /\ flagObjs' = r.H.flagObjs
  /\ ops' = Append(ops, r.op)
  /\ UNCHANGED <<emitters, sends, calls, logs, made>>

\* faulty variant: while a send is pending, a new call issues none of its own
Invoke_Batched(method, recv, input, out) ==
  /\ Budget
  /\ Len(calls) < MaxCalls
  /\ sends' = IF \E j \in 1..Len(sends) : sends[j].status = "pending"
               THEN sends
               ELSE sends \o [i \in 1..Len(out.published) |->
                                [req |-> out.published[i], status |-> "pending",
                                 call |-> Len(calls) + 1]]
  /\ calls' = Append(calls,
                [method |-> method, recv |-> recv, input |-> input,
                 state |-> IF out.threw THEN "rejected" ELSE "awaiting",
                 result |-> "none", error |-> out.error, fault |-> "none"])
  /\ UNCHANGED <<emitters, sets, flagObjs, ops, logs, made>>

\* an async terminal method ran up to its first await (or threw)
Invoke(method, recv, input, out) ==
  /\ Budget
  /\ Len(calls) < MaxCalls
  /\ sends' = sends \o [i \in 1..Len(out.published) |->
                          [req |-> out.published[i], status |-> "pending",
                           call |-> Len(calls) + 1]]
  /\ calls' = Append(calls,
                [method |-> method, recv |-> recv, input |-> input,
                 state |-> IF out.threw THEN "rejected" ELSE "awaiting",
                 result |-> "none", error |-> out.error, fault |-> "none"])
  /\ UNCHANGED <<emitters, sets, flagObjs, ops, logs, made>>

\* faulty variant: the Emitter goes on from the operator obtained last
Fresh_Last(e) ==
  IF ops = <<>> THEN NewOperator(TheHeap, emitters[e], e)
  ELSE [H |-> TheHeap, op |-> [ops[Len(ops)] EXCEPT !.bo = e]]

\* new BroadcastOperator(this.snsClient, this.broadcastOptions)
Fresh(e) == NewOperator(TheHeap, emitters[e], e)

\* where the try block of publish raises before client.send is called: not at
\* all, in encode(data), or in new PublishCommand(...)
Faults == {"none", "encode", "command"}
FaultError == [message |-> <<"could not build the request">>]

\* faulty variant: the catch of publish throws the error again
TryPublish_Rethrows(reqs, fault) ==
  IF fault = "none"
    THEN [sent |-> reqs, logged |-> 0, threw |-> FALSE]
    ELSE [sent |-> <<>>, logged |-> 1, threw |-> TRUE]

\* try { ... return client.send(...) } catch (e) { console.log(e) }: the sends
\* made, the lines logged, and whether publish throws
TryPublish(reqs, fault) ==
  IF fault = "none"
    THEN [sent |-> reqs, logged |-> 0, threw |-> FALSE]
    ELSE [sent |-> <<>>, logged |-> 1, threw |-> FALSE]

\* an async terminal method ran up to its first await (or threw), the try
\* block of its publish raising as fault says
InvokeFault(method, recv, input, out, fault) ==
  LET t == IF out.threw
             THEN [sent |-> <<>>, logged |-> 0, threw |-> TRUE]
             ELSE TryPublish(out.published, fault)
  IN /\ Budget
     /\ Len(calls) < MaxCalls
     /\ sends' = sends \o [i \in 1..Len(t.sent) |->
                             [req |-> t.sent[i], status |-> "pending",
                              call |-> Len(calls) + 1]]
     /\ logs' = logs + t.logged
     /\ calls' = Append(calls,
                   [method |-> method, recv |-> recv, input |-> input,
                    state |-> IF t.threw THEN "rejected" ELSE "awaiting",
                    result |-> "none",
                    error |-> IF out.threw THEN out.error
                              ELSE IF t.threw THEN FaultError ELSE NoError,
                    fault |-> IF out.threw THEN "none" ELSE fault])
     /\ UNCHANGED <<emitters, sets, flagObjs, ops, made>>
OnEmitter(e) == [kind |-> "emitter", idx |-> e]
OnOperator(i) == [kind |-> "operator", idx |-> i]

\* new Emitter(snsClient, topicArn, nsp) with an explicit namespace
Construct(topic, nsp) ==
  /\ Budget
  /\ emitters' = Append(emitters, NewEmitter(SnsClient, topic, nsp))
  /\ made' = Append(made, [via |-> "new", from |-> 0, arg |-> nsp])
  /\ UNCHANGED <<sets, flagObjs, ops, sends, calls, logs>>

EmitterOf(e, nsp) ==
  /\ Budget
  /\ emitters' = Append(emitters, Of(emitters[e], nsp))
  /\ made' = Append(made, [via |-> "of", from |-> e, arg |-> nsp])
  /\ UNCHANGED <<sets, flagObjs, ops, sends, calls, logs>>

EmitterTo(e, room) == Obtain(To(Fresh(e).H, Fresh(e).op, room))
EmitterIn(e, room) == Obtain(In(Fresh(e).H, Fresh(e).op, room))
EmitterExcept(e, room) == Obtain(Except(Fresh(e).H, Fresh(e).op, room))
EmitterVolatile(e) == Obtain(Volatile(Fresh(e).H, Fresh(e).op))
EmitterCompress(e, b) == Obtain(Compress(Fresh(e).H, Fresh(e).op, b))

EmitterEmit(e, ev, args) ==
  Invoke("emit", OnEmitter(e), [ev |-> ev, args |-> args],
         Emit(Fresh(e).H, emitters, Fresh(e).op, ev, args))
EmitterSocketsJoin(e, rooms) ==
  Invoke("socketsJoin", OnEmitter(e), [rooms |-> rooms],
         SocketsJoin(Fresh(e).H, emitters, Fresh(e).op, rooms))
EmitterSocketsLeave(e, rooms) ==
  Invoke("socketsLeave", OnEmitter(e), [rooms |-> rooms],
         SocketsLeave(Fresh(e).H, emitters, Fresh(e).op, rooms))
EmitterDisconnectSockets(e, close) ==
  Invoke("disconnectSockets", OnEmitter(e), [close |-> close],
         DisconnectSockets(Fresh(e).H, emitters, Fresh(e).op, close))
EmitterServerSideEmit(e, args) ==
  Invoke("serverSideEmit", OnEmitter(e), [args |-> args],
         ServerSideEmit(emitters[e], args))

OpTo(i, room) == Obtain(To(TheHeap, ops[i], room))
OpIn(i, room) == Obtain(In(TheHeap, ops[i], room))
OpExcept(i, room) == Obtain(Except(TheHeap, ops[i], room))
OpVolatile(i) == Obtain(Volatile(TheHeap, ops[i]))
OpCompress(i, b) == Obtain(Compress(TheHeap, ops[i], b))

OpEmit(i, ev, args) ==
  Invoke("emit", OnOperator(i), [ev |-> ev, args |-> args],
         Emit(TheHeap, emitters, ops[i], ev, args))
OpSocketsJoin(i, rooms) ==
  Invoke("socketsJoin", OnOperator(i), [rooms |-> rooms],
         SocketsJoin(TheHeap, emitters, ops[i], rooms))
OpSocketsLeave(i, rooms) ==
  Invoke("socketsLeave", OnOperator(i), [rooms |-> rooms],
         SocketsLeave(TheHeap, emitters, ops[i], rooms))
OpDisconnectSockets(i, close) ==
  Invoke("disconnectSockets", OnOperator(i), [close |-> close],
         DisconnectSockets(TheHeap, emitters, ops[i], close))

\* the SNS client settles a send: the .then(debug) branch
SendSucceeds(i) ==
  /\ sends[i].status = "pending"
  /\ sends' = [sends EXCEPT ![i].status = "fulfilled"]
  /\ UNCHANGED <<emitters, sets, flagObjs, ops, calls, logs, made>>

\* faulty variant: a rejected send is issued once more
SendFails_Retry(i) ==
  /\ sends[i].status = "pending"
  /\ sends' = IF Cardinality(SendsOf(sends[i].call)) = 1
               THEN Append([sends EXCEPT ![i].status = "rejected"], sends[i])
               ELSE [sends EXCEPT ![i].status = "rejected"]
  /\ logs' = logs + 1
  /\ UNCHANGED <<emitters, sets, flagObjs, ops, calls, made>>

\* the SNS client rejects a send: the .catch(console.log) branch
SendFails(i) ==
  /\ sends[i].status = "pending"
  /\ sends' = [sends EXCEPT ![i].status = "rejected"]
  /\ logs' = logs + 1
  /\ UNCHANGED <<emitters, sets, flagObjs, ops, calls, made>>

\* the await of call c is over: the async method runs to its end
Resume(c) ==
  /\ calls[c].state = "awaiting"
  /\ Awaited(c) # "pending"
  /\ calls' = [calls EXCEPT ![c] =
       IF Awaited(c) = "fulfilled"
         THEN [@ EXCEPT !.state = "resolved", !.result = ReturnValue(calls[c].method)]
         ELSE [@ EXCEPT !.state = "rejected", !.error = SendError]]
  /\ UNCHANGED <<emitters, sets, flagObjs, ops, sends, logs, made>>

Next ==
  \/ \E topic \in Topics, nsp \in NspSamples : Construct(topic, nsp)
  \/ \E e \in 1..Len(emitters), nsp \in NspSamples : EmitterOf(e, nsp)
  \/ \E e \in 1..Len(emitters), room \in RoomSamples : EmitterTo(e, room)
  \/ \E e \in 1..Len(emitters), room \in RoomSamples : EmitterIn(e, room)
  \/ \E e \in 1..Len(emitters), room \in RoomSamples : EmitterExcept(e, room)
  \/ \E e \in 1..Len(emitters) : EmitterVolatile(e)
  \/ \E e \in 1..Len(emitters), b \in BOOLEAN : EmitterCompress(e, b)
  \/ \E e \in 1..Len(emitters), call \in EmitSamples : EmitterEmit(e, call.ev, call.args)
  \/ \E e \in 1..Len(emitters), rooms \in JoinSamples : EmitterSocketsJoin(e, rooms)
  \/ \E e \in 1..Len(emitters), rooms \in LeaveSamples : EmitterSocketsLeave(e, rooms)
  \/ \E e \in 1..Len(emitters), close \in CloseSamples : EmitterDisconnectSockets(e, close)
  \/ \E e \in 1..Len(emitters), args \in AckSamples : EmitterServerSideEmit(e, args)
  \/ \E i \in 1..Len(ops), room \in RoomSamples : OpTo(i, room)
  \/ \E i \in 1..Len(ops), room \in RoomSamples : OpIn(i, room)
  \/ \E i \in 1..Len(ops), room \in RoomSamples : OpExcept(i, room)
  \/ \E i \in 1..Len(ops) : OpVolatile(i)
  \/ \E i \in 1..Len(ops), b \in BOOLEAN : OpCompress(i, b)
  \/ \E i \in 1..Len(ops), call \in EmitSamples : OpEmit(i, call.ev, call.args)
  \/ \E i \in 1..Len(ops), rooms \in JoinSamples : OpSocketsJoin(i, rooms)
  \/ \E i \in 1..Len(ops), rooms \in LeaveSamples : OpSocketsLeave(i, rooms)
  \/ \E i \in 1..Len(ops), close \in CloseSamples : OpDisconnectSockets(i, close)
  \/ \E i \in 1..Len(sends) : SendSucceeds(i)
  \/ \E i \in 1..Len(sends) : SendFails(i)
  \/ \E c \in 1..Len(calls) : Resume(c)

Spec == Init /\ [][Next]_vars

\* the selectors alone, on the Emitter built at Init, with every room argument
\* up to MaxArr: they read and write only operators and heaps, which no other
\* action writes
NextTargets ==
  \/ \E e \in 1..Len(emitters), room \in RoomArgs : EmitterTo(e, room)
  \/ \E e \in 1..Len(emitters), room \in RoomArgs : EmitterIn(e, room)
  \/ \E e \in 1..Len(emitters), room \in RoomArgs : EmitterExcept(e, room)
  \/ \E e \in 1..Len(emitters) : EmitterVolatile(e)
  \/ \E e \in 1..Len(emitters), b \in BOOLEAN : EmitterCompress(e, b)
  \/ \E i \in 1..Len(ops), room \in RoomArgs : OpTo(i, room)
  \/ \E i \in 1..Len(ops), room \in RoomArgs : OpIn(i, room)
  \/ \E i \in 1..Len(ops), room \in RoomArgs : OpExcept(i, room)
  \/ \E i \in 1..Len(ops) : OpVolatile(i)
  \/ \E i \in 1..Len(ops), b \in BOOLEAN : OpCompress(i, b)

SpecTargets == Init /\ [][NextTargets]_vars

\* the constructor and of alone: they read and write only the emitters
NextEmitters ==
  \/ \E topic \in Topics, nsp \in NspStrings : Construct(topic, nsp)
  \/ \E e \in 1..Len(emitters), nsp \in NspStrings : EmitterOf(e, nsp)

SpecEmitters == Init /\ [][NextEmitters]_vars

\* the methods that take a room argument, with every argument up to MaxArr
NextRooms ==
  \/ \E e \in 1..Len(emitters), room \in RoomArgs : EmitterTo(e, room)
  \/ \E e \in 1..Len(emitters), room \in RoomArgs : EmitterExcept(e, room)
  \/ \E e \in 1..Len(emitters), rooms \in RoomArgs : EmitterSocketsJoin(e, rooms)
  \/ \E e \in 1..Len(emitters), rooms \in RoomArgs : EmitterSocketsLeave(e, rooms)
  \/ \E i \in 1..Len(ops), room \in RoomArgs : OpTo(i, room)
  \/ \E i \in 1..Len(ops), room \in RoomArgs : OpIn(i, room)
  \/ \E i \in 1..Len(ops), room \in RoomArgs : OpExcept(i, room)
  \/ \E i \in 1..Len(ops), rooms \in RoomArgs : OpSocketsJoin(i, rooms)
  \/ \E i \in 1..Len(ops), rooms \in RoomArgs : OpSocketsLeave(i, rooms)

SpecRooms == Init /\ [][NextRooms]_vars

\* the Emitters, the selectors and the terminal methods up to their await,
\* with every input: the request of a call is made by then, and the settling
\* of its send does not touch it
NextMessages ==
  \/ \E topic \in Topics, nsp \in NspSamples : Construct(topic, nsp)
  \/ \E e \in 1..Len(emitters), room \in RoomSamples : EmitterTo(e, room)
  \/ \E e \in 1..Len(emitters), room \in RoomSamples : EmitterExcept(e, room)
  \/ \E e \in 1..Len(emitters) : EmitterVolatile(e)
  \/ \E e \in 1..Len(emitters), b \in BOOLEAN : EmitterCompress(e, b)
  \/ \E e \in 1..Len(emitters), call \in EmitInputs : EmitterEmit(e, call.ev, call.args)
  \/ \E e \in 1..Len(emitters), rooms \in RoomSamples : EmitterSocketsJoin(e, rooms)
  \/ \E e \in 1..Len(emitters), rooms \in RoomSamples : EmitterSocketsLeave(e, rooms)
  \/ \E e \in 1..Len(emitters), close \in CloseArgs : EmitterDisconnectSockets(e, close)
  \/ \E e \in 1..Len(emitters), args \in ArgLists : EmitterServerSideEmit(e, args)
  \/ \E i \in 1..Len(ops), call \in EmitInputs : OpEmit(i, call.ev, call.args)
  \/ \E i \in 1..Len(ops), rooms \in RoomSamples : OpSocketsJoin(i, rooms)
  \/ \E i \in 1..Len(ops), rooms \in RoomSamples : OpSocketsLeave(i, rooms)
  \/ \E i \in 1..Len(ops), close \in CloseArgs : OpDisconnectSockets(i, close)

SpecMessages == Init /\ [][NextMessages]_vars

\* emit on Emitters and on operators, with the settling of the sends and the
\* continuations of the calls; a continuation whose awaited promise has
\* settled is a microtask, which the event loop runs
NextEmits ==
  \/ \E e \in 1..Len(emitters), room \in RoomSamples : EmitterTo(e, room)
  \/ \E e \in 1..Len(emitters) : EmitterVolatile(e)
  \/ \E e \in 1..Len(emitters), call \in EmitInputs : EmitterEmit(e, call.ev, call.args)
  \/ \E i \in 1..Len(ops), call \in EmitInputs : OpEmit(i, call.ev, call.args)
  \/ \E i \in 1..Len(sends) : SendSucceeds(i)
  \/ \E i \in 1..Len(sends) : SendFails(i)
  \/ \E c \in 1..Len(calls) : Resume(c)

\* the inputs of the calls whose publish may raise
FaultEmits == {[ev |-> "connect", args |-> <<>>], [ev |-> "x", args |-> <<>>]}
FaultAcks == {<<StrVal("hello")>>, <<StrVal("world"), FnVal>>}

\* the terminal methods with a publish whose try block may raise, the
\* settling of the sends and the continuations of the calls
NextFaults ==
  \/ \E e \in 1..Len(emitters), room \in JoinSamples : EmitterTo(e, room)
  \/ \E e \in 1..Len(emitters), call \in FaultEmits, fault \in Faults :
       InvokeFault("emit", OnEmitter(e), call,
                   Emit(Fresh(e).H, emitters, Fresh(e).op, call.ev, call.args), fault)
  \/ \E e \in 1..Len(emitters), rooms \in JoinSamples, fault \in Faults :
       InvokeFault("socketsJoin", OnEmitter(e), [rooms |-> rooms],
                   SocketsJoin(Fresh(e).H, emitters, Fresh(e).op, rooms), fault)
  \/ \E e \in 1..Len(emitters), close \in {Undefined}, fault \in Faults :
       InvokeFault("disconnectSockets", OnEmitter(e), [close |-> close],
                   DisconnectSockets(Fresh(e).H, emitters, Fresh(e).op, close), fault)
  \/ \E e \in 1..Len(emitters), args \in FaultAcks, fault \in Faults :
       InvokeFault("serverSideEmit", OnEmitter(e), [args |-> args],
                   ServerSideEmit(emitters[e], args), fault)
  \/ \E i \in 1..Len(ops), call \in FaultEmits, fault \in Faults :
       InvokeFault("emit", OnOperator(i), call,
                   Emit(TheHeap, emitters, ops[i], call.ev, call.args), fault)
  \/ \E i \in 1..Len(sends) : SendSucceeds(i)
  \/ \E i \in 1..Len(sends) : SendFails(i)
  \/ \E c \in 1..Len(calls) : Resume(c)

SpecFaults ==
  /\ Init
  /\ [][NextFaults]_vars
  /\ \A c \in 1..MaxCalls : WF_vars(IF c <= Len(calls) THEN Resume(c) ELSE FALSE)

SpecEmits ==
  /\ Init
  /\ [][NextEmits]_vars
  /\ \A c \in 1..MaxCalls : WF_vars(IF c <= Len(calls) THEN Resume(c) ELSE FALSE)

\* ------------------------------------------------------------------- views
\* the value of operator i with its references followed
OpView(i) ==
  [snsClient |-> ops[i].snsClient,
   broadcastOptions |-> emitters[ops[i].bo].broadcastOptions,
   rooms |-> sets[ops[i].rooms],
   exceptRooms |-> sets[ops[i].exceptRooms],
   flags |-> flagObjs[ops[i].flags]]

Calls == 1..Len(calls)
Emitters == 1..Len(emitters)
Ops == 1..Len(ops)

\* the send of call c was rejected by the transport
SendFailed(c) == \E i \in SendsOf(c) : sends[i].status = "rejected"

\* the receiver of call c, as an operator record
ReceiverIsChained(c) ==
  /\ calls[c].recv.kind = "operator"
  /\ sets[ops[calls[c].recv.idx].rooms] # EmptySet

\* ---------------------------------------------------------------------- C1
\* C1: an emit whose event name is in RESERVED_EVENTS, on an Emitter or on
\* any BroadcastOperator, is rejected with the reserved-name error and issues
\* no transport send.
C1_ReservedEmitNeverSends ==
  \A c \in Calls :
    (calls[c].method = "emit" /\ calls[c].input.ev \in
       {"connect", "connect_error", "disconnect", "disconnecting",
        "newListener", "removeListener"})
      => /\ calls[c].state = "rejected"
         /\ calls[c].error = [message |-> <<"\"", calls[c].input.ev,
                                            "\" is a reserved event name">>]
         /\ SendsOf(c) = {}

\* a reserved emit was made on an operator obtained through a selector, and
\* another one directly on an emitter
C1_Witness ==
  /\ \E c \in Calls :
       /\ calls[c].method = "emit"
       /\ calls[c].input.ev = "disconnecting"
       /\ ReceiverIsChained(c)
       /\ calls[c].state = "rejected"
  /\ sends = <<>>

\* ---------------------------------------------------------------------- C2
\* C2: serverSideEmit with an argument list whose last element is a function
\* is rejected with "Acknowledgements are not supported" and issues no
\* transport send, whatever the other arguments and the namespace.
C2_AckNeverSends ==
  \A c \in Calls :
    (/\ calls[c].method = "serverSideEmit"
     /\ calls[c].input.args # <<>>
     /\ calls[c].input.args[Len(calls[c].input.args)] = FnVal)
      => /\ calls[c].state = "rejected"
         /\ calls[c].error = [message |-> <<"Acknowledgements are not supported">>]
         /\ SendsOf(c) = {}

\* serverSideEmit("world", cb) was called on an emitter of a namespace other
\* than the default one
C2_Witness ==
  \E c \in Calls :
    /\ calls[c].method = "serverSideEmit"
    /\ calls[c].input.args = <<StrVal("world"), FnVal>>
    /\ emitters[calls[c].recv.idx].nsp # DefaultNsp
    /\ calls[c].state = "rejected"
    /\ SendsOf(c) = {}

\* ---------------------------------------------------------------------- C3
\* C3: when the transport's send of a terminal action fails, the call is
\* never rejected: it resolves (to true for emit, to undefined otherwise),
\* and exactly one send was attempted for it.
C3_FailureSwallowed ==
  \A c \in Calls :
    SendFailed(c)
      => /\ calls[c].state \in {"awaiting", "resolved"}
         /\ calls[c].state = "resolved"
              => calls[c].result = (IF calls[c].method = "emit" THEN "true" ELSE "undefined")
         /\ Cardinality(SendsOf(c)) = 1

\* an emit and another terminal action both resolved after their sends failed
C3_Witness ==
  /\ \E c \in Calls :
       /\ calls[c].method = "emit" /\ SendFailed(c)
       /\ calls[c].state = "resolved" /\ calls[c].result = "true"
  /\ \E c \in Calls :
       /\ calls[c].method # "emit" /\ SendFailed(c)
       /\ calls[c].state = "resolved" /\ calls[c].result = "undefined"

\* ---------------------------------------------------------------------- C4
\* C4 as stated: when the transport's send fails, the awaited result of the
\* terminal action fails rather than resolving.
C4_FailureSurfaced ==
  \A c \in Calls :
    (SendFailed(c) /\ calls[c].state # "awaiting") => calls[c].state = "rejected"

\* C4 as amended: a failed send is logged and not surfaced: every console.log
\* stands for one rejected send, a call whose send failed carries no error and
\* is not rejected, a rejected call is one that threw before publishing, and
\* no second send is issued for the call.
C4_FailureLoggedNotSurfaced ==
  /\ logs = Cardinality({i \in 1..Len(sends) : sends[i].status = "rejected"})
  /\ \A c \in Calls :
       /\ SendFailed(c) => (calls[c].error = NoError /\ Cardinality(SendsOf(c)) = 1)
       /\ calls[c].state = "rejected" => SendsOf(c) = {}

\* a send failed, was logged, and its call resolved
C4_Witness ==
  \E c \in Calls :
    /\ SendFailed(c)
    /\ calls[c].state = "resolved"
    /\ logs = 1

\* ---------------------------------------------------------------------- C5
\* C5: no operation changes an object obtained earlier: every step leaves
\* every existing Emitter as it was and every existing BroadcastOperator with
\* the same namespace, topic, room set, exclusion set and flags, so that an
\* emit on it publishes what it would have published before.
C5_NoMutation ==
  [][/\ \A e \in Emitters : emitters'[e] = emitters[e]
     /\ \A i \in Ops :
          /\ OpView(i)' = OpView(i)
          /\ Emit(TheHeap, emitters, ops[i], "x", <<>>)'
               = Emit(TheHeap, emitters, ops[i], "x", <<>>)]_vars

\* an operator was derived from an earlier operator, sharing its exclusion
\* set and flags but not its room set
C5_Witness ==
  /\ Len(ops) = 2
  /\ ops[2].exceptRooms = ops[1].exceptRooms
  /\ ops[2].flags = ops[1].flags
  /\ ops[2].rooms # ops[1].rooms
  /\ sets[ops[1].rooms] = <<"a">>
  /\ sets[ops[2].rooms] = <<"a", "b">>

\* ------------------------------------------------- views for the selectors
\* the operators a selector can be called on: those obtained so far, and the
\* fresh one every method of an Emitter starts from
Receivers ==
  {[H |-> TheHeap, op |-> ops[i]] : i \in Ops} \cup {Fresh(e) : e \in Emitters}

\* the operator obtained last, or the fresh ones while none was obtained:
\* operators are only ever appended, so every receiver is the latest in the
\* state its selector returned it in
Latest ==
  IF ops = <<>> THEN {Fresh(e) : e \in Emitters}
  ELSE {[H |-> TheHeap, op |-> ops[Len(ops)]]}

RoomsOf(r) == r.H.sets[r.op.rooms]
ExceptOf(r) == r.H.sets[r.op.exceptRooms]

\* the rooms a `string | string[]` argument names
ArgRooms(room) == IF room.isArray THEN Range(room.val) ELSE {room.val}

\* the structured value carried by the data attribute of a request
Payload(req) == req.MessageAttributes["data"].BinaryValue.msgpack

\* the targeting record an emit on r would publish
TargetingRecord(r) ==
  LET opts == Payload(Emit(r.H, emitters, r.op, "x", <<>>).published[1]).opts
  IN [rooms |-> opts.rooms, except |-> opts.except]

\* ---------------------------------------------------------------------- C6
\* C6: to / in accumulate: after two calls, in either order and through
\* either name, the room set is the union of the receiver's room set and the
\* rooms passed; adding rooms already present changes nothing; the same
\* holds of except and the exclusion set.
C6_Accumulates ==
  \A r \in Latest : \A a, b \in RoomArgs :
    LET ta == To(r.H, r.op, a)
        tab == In(ta.H, ta.op, b)
        tb == In(r.H, r.op, b)
        tba == To(tb.H, tb.op, a)
        xa == Except(r.H, r.op, a)
        xab == Except(xa.H, xa.op, b)
        xb == Except(r.H, r.op, b)
        xba == Except(xb.H, xb.op, a)
    IN /\ Range(RoomsOf(tab)) = Range(RoomsOf(r)) \cup ArgRooms(a) \cup ArgRooms(b)
       /\ Range(RoomsOf(tba)) = Range(RoomsOf(tab))
       /\ Len(RoomsOf(tab)) = Cardinality(Range(RoomsOf(tab)))
       /\ ArgRooms(a) \subseteq Range(RoomsOf(r)) => RoomsOf(ta) = RoomsOf(r)
       /\ Range(ExceptOf(xab)) = Range(ExceptOf(r)) \cup ArgRooms(a) \cup ArgRooms(b)
       /\ Range(ExceptOf(xba)) = Range(ExceptOf(xab))
       /\ Len(ExceptOf(xab)) = Cardinality(Range(ExceptOf(xab)))
       /\ ArgRooms(a) \subseteq Range(ExceptOf(r)) => ExceptOf(xa) = ExceptOf(r)

\* an operator was obtained by to / in of "a" on an operator that targeted
\* "b", and shares the exclusion set of its receiver
C6_Witness ==
  /\ Len(ops) = 2
  /\ sets[ops[1].rooms] = <<"b">>
  /\ sets[ops[2].rooms] = <<"b", "a">>
  /\ ops[2].exceptRooms = ops[1].exceptRooms

\* ---------------------------------------------------------------------- C7
\* C7: to and except commute and act on independent sets: from a fresh
\* operator, to(r1).except(r2) and except(r2).to(r1) publish the same
\* targeting record, rooms [r1] and except [r2], also when r1 = r2; to leaves
\* the exclusion set of any receiver as it is and except leaves its room set.
C7_ToExceptIndependent ==
  /\ \A e \in Emitters : \A r1, r2 \in Rooms :
       LET f == Fresh(e)
           t == To(f.H, f.op, StrArg(r1))
           tx == Except(t.H, t.op, StrArg(r2))
           x == Except(f.H, f.op, StrArg(r2))
           xt == To(x.H, x.op, StrArg(r1))
       IN /\ TargetingRecord(tx) = TargetingRecord(xt)
          /\ TargetingRecord(tx) = [rooms |-> <<r1>>, except |-> <<r2>>]
  /\ \A r \in Receivers : \A a \in RoomArgs :
       /\ ExceptOf(To(r.H, r.op, a)) = ExceptOf(r)
       /\ RoomsOf(Except(r.H, r.op, a)) = RoomsOf(r)

\* an operator obtained by to("a") and except("a") targets room "a" and
\* excludes it as well
C7_Witness ==
  /\ Len(ops) = 2
  /\ sets[ops[2].rooms] = <<"a">>
  /\ sets[ops[2].exceptRooms] = <<"a">>
  /\ (ops[2].rooms = ops[1].rooms \/ ops[2].exceptRooms = ops[1].exceptRooms)

\* ---------------------------------------------------------------------- C8
\* the operator call c was made on, with the heaps it reads
ReceiverOf(c) ==
  IF calls[c].recv.kind = "operator"
    THEN [H |-> TheHeap, op |-> ops[calls[c].recv.idx]]
    ELSE Fresh(calls[c].recv.idx)

\* C8: a single room r and the list [r] are the same argument: to, in and
\* except return the same operator for both, on every receiver, and
\* socketsJoin / socketsLeave publish the same message for both.
C8_StringAsSingleton ==
  /\ \A r \in Receivers : \A x \in Rooms :
       /\ To(r.H, r.op, StrArg(x)) = To(r.H, r.op, ArrArg(<<x>>))
       /\ In(r.H, r.op, StrArg(x)) = In(r.H, r.op, ArrArg(<<x>>))
       /\ Except(r.H, r.op, StrArg(x)) = Except(r.H, r.op, ArrArg(<<x>>))
  /\ \A c \in Calls : \A x \in Rooms :
       (/\ calls[c].method \in {"socketsJoin", "socketsLeave"}
        /\ calls[c].input.rooms \in {StrArg(x), ArrArg(<<x>>)})
         => LET r == ReceiverOf(c)
                s == IF calls[c].method = "socketsJoin"
                       THEN SocketsJoin(r.H, emitters, r.op, StrArg(x))
                       ELSE SocketsLeave(r.H, emitters, r.op, StrArg(x))
                l == IF calls[c].method = "socketsJoin"
                       THEN SocketsJoin(r.H, emitters, r.op, ArrArg(<<x>>))
                       ELSE SocketsLeave(r.H, emitters, r.op, ArrArg(<<x>>))
            IN /\ s = l
               /\ Cardinality(SendsOf(c)) = 1
               /\ \A i \in SendsOf(c) : <<sends[i].req>> = s.published

\* socketsLeave("b") was called on an operator obtained by a selector, and
\* its message holds the list ["b"]
C8_Witness ==
  \E c \in Calls :
    /\ calls[c].method = "socketsLeave"
    /\ calls[c].input.rooms = StrArg("b")
    /\ ReceiverIsChained(c)
    /\ \E i \in SendsOf(c) : Payload(sends[i].req).rooms = <<"b">>

\* ---------------------------------------------------------------------- C9
\* C9: of(path) returns an Emitter with the receiver's client and topic whose
\* namespace is path when path starts with "/" and "/" + path otherwise,
\* whatever the receiver's namespace; of("c") and of("/c") give "/c".
C9_OfNormalizes ==
  /\ \A e \in Emitters :
       made[e].via = "of" =>
         LET r == emitters[made[e].from]
             path == made[e].arg
             nsp == IF path # <<>> /\ Head(path) = "/" THEN path ELSE <<"/">> \o path
         IN /\ emitters[e].snsClient = r.snsClient
            /\ emitters[e].topicArn = r.topicArn
            /\ emitters[e].nsp = nsp
            /\ emitters[e].broadcastOptions = [nsp |-> nsp, topicArn |-> r.topicArn]
  /\ \A e \in Emitters :
       /\ Of(emitters[e], <<"c">>).nsp = <<"/", "c">>
       /\ Of(emitters[e], <<"/", "c">>).nsp = <<"/", "c">>

\* of("c") was called on an emitter of another topic whose namespace is not
\* the default one
C9_Witness ==
  \E e \in Emitters :
    /\ made[e].via = "of"
    /\ made[e].arg = <<"c">>
    /\ emitters[made[e].from].nsp = <<"c", "/">>
    /\ emitters[made[e].from].topicArn # TopicArn
    /\ emitters[e].nsp = <<"/", "c">>

\* --------------------------------------------------------------------- C10
\* C10: the namespace of every Emitter starts with "/", however the Emitter
\* was made, and so does the namespace carried by every message published.
C10_NamespaceNormalized ==
  /\ \A e \in Emitters : emitters[e].nsp # <<>> /\ Head(emitters[e].nsp) = "/"
  /\ \A i \in 1..Len(sends) :
       /\ "nsp" \in DOMAIN sends[i].req.MessageAttributes
       /\ Head(sends[i].req.MessageAttributes["nsp"].StringValue) = "/"

\* -------------------------------------------- views for the terminal methods
\* the Emitter whose broadcastOptions the receiver of call c holds
EmitterOfCall(c) == emitters[ReceiverOf(c).op.bo]

\* the flags object of receiver r
FlagsOf(r) == r.H.flagObjs[r.op.flags]

\* the namespace a request names: its nsp attribute, none naming the empty one
NamespaceOf(req) ==
  IF "nsp" \in DOMAIN req.MessageAttributes
    THEN req.MessageAttributes["nsp"].StringValue
    ELSE <<>>

\* --------------------------------------------------------------------- C11
\* C11: an emit of a name that is not reserved issues exactly one send, to
\* the topic of its emitter, with the BROADCAST discriminator; its payload
\* holds packet.type EVENT, packet.data [ev, ...args] with the arguments as
\* they were passed (buffers and arrays untouched), packet.nsp the emitter's
\* namespace, and opts the receiver's rooms, excluded rooms and flags.
C11_EmitMessage ==
  \A c \in Calls :
    (calls[c].method = "emit" /\ calls[c].input.ev \notin RESERVED_EVENTS) =>
      /\ Cardinality(SendsOf(c)) = 1
      /\ \A i \in SendsOf(c) :
           LET req == sends[i].req
               p == Payload(req)
               r == ReceiverOf(c)
               em == EmitterOfCall(c)
           IN /\ req.TopicArn = em.topicArn
              /\ req.Message = ToString(MessageType.BROADCAST)
              /\ DOMAIN p = {"packet", "opts"}
              /\ p.packet.type = PacketType.EVENT
              /\ p.packet.data = <<StrVal(calls[c].input.ev)>> \o calls[c].input.args
              /\ p.packet.nsp = em.nsp
              /\ p.opts = [rooms |-> RoomsOf(r), except |-> ExceptOf(r),
                           flags |-> FlagsOf(r)]

\* "x" was emitted with a string, a buffer and an array on an operator that
\* targets a room, and the send carries the four elements
C11_Witness ==
  \E c \in Calls : \E i \in SendsOf(c) :
    /\ calls[c].method = "emit"
    /\ ReceiverIsChained(c)
    /\ Len(calls[c].input.args) = 3
    /\ Payload(sends[i].req).packet.data[3] = BufVal(<<1, 2>>)
    /\ Len(Payload(sends[i].req).packet.data) = 4
    /\ Payload(sends[i].req).opts.rooms # <<>>

\* --------------------------------------------------------------------- C12
\* C12: socketsJoin and socketsLeave each issue exactly one send, with the
\* SOCKETS_JOIN and the SOCKETS_LEAVE discriminator, to the emitter's topic
\* and namespace; the payload holds the rooms as a list ([r] for a string r,
\* the list itself for a list) and, apart from them, the receiver's rooms
\* and excluded rooms as opts.
C12_JoinLeaveMessage ==
  \A c \in Calls :
    calls[c].method \in {"socketsJoin", "socketsLeave"} =>
      /\ Cardinality(SendsOf(c)) = 1
      /\ \A i \in SendsOf(c) :
           LET req == sends[i].req
               p == Payload(req)
               r == ReceiverOf(c)
               arg == calls[c].input.rooms
           IN /\ req.TopicArn = EmitterOfCall(c).topicArn
              /\ NamespaceOf(req) = EmitterOfCall(c).nsp
              /\ req.Message =
                   IF calls[c].method = "socketsJoin"
                     THEN ToString(MessageType.SOCKETS_JOIN)
                     ELSE ToString(MessageType.SOCKETS_LEAVE)
              /\ DOMAIN p = {"opts", "rooms"}
              /\ p.rooms = IF arg.isArray THEN arg.val ELSE <<arg.val>>
              /\ p.opts = [rooms |-> RoomsOf(r), except |-> ExceptOf(r)]

\* socketsLeave("a") was called on an operator that targets "a" and "b": the
\* send lists ["a"] to leave and keeps both rooms as its target
C12_Witness ==
  \E c \in Calls : \E i \in SendsOf(c) :
    /\ calls[c].method = "socketsLeave"
    /\ calls[c].input.rooms = StrArg("a")
    /\ Payload(sends[i].req).rooms = <<"a">>
    /\ Payload(sends[i].req).opts.rooms = <<"a", "b">>
    /\ sends[i].req.Message = "5"

\* --------------------------------------------------------------------- C13
\* C13 as stated: disconnectSockets issues exactly one send with the
\* DISCONNECT_SOCKETS discriminator, whose payload holds close (false when
\* left out) and the receiver's rooms, excluded rooms and flags.
C13_DisconnectWithFlags ==
  \A c \in Calls :
    calls[c].method = "disconnectSockets" =>
      /\ Cardinality(SendsOf(c)) = 1
      /\ \A i \in SendsOf(c) :
           LET p == Payload(sends[i].req)
               r == ReceiverOf(c)
           IN /\ sends[i].req.Message = ToString(MessageType.DISCONNECT_SOCKETS)
              /\ p.close = (calls[c].input.close = BoolVal(TRUE))
              /\ DOMAIN p.opts = {"rooms", "except", "flags"}
              /\ p.opts = [rooms |-> RoomsOf(r), except |-> ExceptOf(r),
                           flags |-> FlagsOf(r)]

\* C13, amended: disconnectSockets issues exactly one send with the
\* DISCONNECT_SOCKETS discriminator, whose payload holds close (false when
\* left out) and the receiver's rooms and excluded rooms; the flags of the
\* receiver are not in the message.
C13_DisconnectMessage ==
  \A c \in Calls :
    calls[c].method = "disconnectSockets" =>
      /\ Cardinality(SendsOf(c)) = 1
      /\ \A i \in SendsOf(c) :
           LET p == Payload(sends[i].req)
               r == ReceiverOf(c)
           IN /\ sends[i].req.Message = ToString(MessageType.DISCONNECT_SOCKETS)
              /\ DOMAIN p = {"opts", "close"}
              /\ p.close = (calls[c].input.close = BoolVal(TRUE))
              /\ p.opts = [rooms |-> RoomsOf(r), except |-> ExceptOf(r)]

\* disconnectSockets() was called without argument on a volatile operator:
\* the send holds close false and no flags
C13_Witness ==
  \E c \in Calls : \E i \in SendsOf(c) :
    /\ calls[c].method = "disconnectSockets"
    /\ calls[c].input.close = Undefined
    /\ calls[c].recv.kind = "operator"
    /\ "volatile" \in DOMAIN FlagsOf(ReceiverOf(c))
    /\ Payload(sends[i].req).close = FALSE
    /\ "flags" \notin DOMAIN Payload(sends[i].req).opts

\* --------------------------------------------------------------------- C14
\* C14: serverSideEmit with arguments whose last one is not a function, or
\* with none, does not fail and issues exactly one send, with the
\* SERVER_SIDE_EMIT discriminator, to the emitter's topic and namespace, whose
\* payload holds the arguments, the same elements in the same order.
C14_ServerSideEmitMessage ==
  \A c \in Calls :
    LET args == calls[c].input.args
        em == emitters[calls[c].recv.idx]
    IN (/\ calls[c].method = "serverSideEmit"
        /\ (args = <<>> \/ args[Len(args)].t # "function")) =>
         /\ calls[c].state \in {"awaiting", "resolved"}
         /\ Cardinality(SendsOf(c)) = 1
         /\ \A i \in SendsOf(c) :
              /\ sends[i].req.TopicArn = em.topicArn
              /\ NamespaceOf(sends[i].req) = em.nsp
              /\ sends[i].req.Message = ToString(MessageType.SERVER_SIDE_EMIT)
              /\ DOMAIN Payload(sends[i].req) = {"packet"}
              /\ Payload(sends[i].req).packet = args

\* serverSideEmit("hello", "world", 1, "2") was called and did not fail; its
\* send holds the four arguments
C14_Witness ==
  \E c \in Calls : \E i \in SendsOf(c) :
    /\ calls[c].method = "serverSideEmit"
    /\ calls[c].state = "awaiting"
    /\ Payload(sends[i].req).packet =
         <<StrVal("hello"), StrVal("world"), NumVal("1"), StrVal("2")>>
    /\ sends[i].req.Message = "9"

\* --------------------------------------------------------------------- C15
\* C15: every call on an Emitter starts from an operator without rooms,
\* excluded rooms or flags, whatever was called on the Emitter before: its
\* emit, socketsJoin, socketsLeave and disconnectSockets publish empty rooms
\* and except (and, for emit, no flags) with the Emitter's topic and
\* namespace; its to / in return exactly the given rooms and nothing
\* excluded, its except exactly the given excluded rooms and no rooms.
C15_EmitterStartsFresh ==
  /\ \A c \in Calls : \A i \in SendsOf(c) :
       (calls[c].recv.kind = "emitter" /\ calls[c].method # "serverSideEmit") =>
         LET opts == Payload(sends[i].req).opts
             em == emitters[calls[c].recv.idx]
         IN /\ opts.rooms = <<>>
            /\ opts.except = <<>>
            /\ calls[c].method = "emit" => DOMAIN opts.flags = {}
            /\ sends[i].req.TopicArn = em.topicArn
            /\ NamespaceOf(sends[i].req) = em.nsp
  /\ \A e \in Emitters : \A room \in RoomSamples :
       LET t == To(Fresh(e).H, Fresh(e).op, room)
           n == In(Fresh(e).H, Fresh(e).op, room)
           x == Except(Fresh(e).H, Fresh(e).op, room)
       IN /\ Range(RoomsOf(t)) = ArgRooms(room) /\ ExceptOf(t) = <<>>
          /\ Range(RoomsOf(n)) = ArgRooms(room) /\ ExceptOf(n) = <<>>
          /\ Range(ExceptOf(x)) = ArgRooms(room) /\ RoomsOf(x) = <<>>
          /\ DOMAIN FlagsOf(t) = {} /\ DOMAIN FlagsOf(x) = {}
          /\ t.op.bo = e /\ n.op.bo = e /\ x.op.bo = e

\* an operator targeting two rooms was obtained from the first Emitter, and
\* a socketsJoin on that Emitter published empty rooms
C15_Witness ==
  /\ Len(ops) = 1
  /\ ops[1].bo = 1
  /\ sets[ops[1].rooms] = <<"a", "b">>
  /\ \E c \in Calls : \E i \in SendsOf(c) :
       /\ calls[c].recv = OnEmitter(1)
       /\ calls[c].method = "socketsJoin"
       /\ Payload(sends[i].req).opts.rooms = <<>>

\* --------------------------------------------------------------------- C16
\* the value of flag k in the flags object f, "unset" when f has no such key
FlagValue(f, k) == IF k \in DOMAIN f THEN [set |-> TRUE, v |-> f[k]] ELSE [set |-> FALSE]

\* C16: the flags merge key by key, the last write winning: compress(b)
\* returns an operator whose compress flag is b and whose volatile flag is
\* the receiver's; volatile returns one whose volatile flag is true and whose
\* compress flag is the receiver's; after two compress the flag is the
\* argument of the second; neither changes the rooms or the excluded rooms.
C16_FlagsLastWriteWins ==
  \A r \in Receivers : \A b, b2 \in BOOLEAN :
    LET cb == Compress(r.H, r.op, b)
        cc == Compress(cb.H, cb.op, b2)
        v == Volatile(r.H, r.op)
        vc == Compress(v.H, v.op, b)
    IN /\ FlagValue(FlagsOf(cb), "compress") = [set |-> TRUE, v |-> b]
       /\ FlagValue(FlagsOf(cb), "volatile") = FlagValue(FlagsOf(r), "volatile")
       /\ FlagValue(FlagsOf(v), "volatile") = [set |-> TRUE, v |-> TRUE]
       /\ FlagValue(FlagsOf(v), "compress") = FlagValue(FlagsOf(r), "compress")
       /\ FlagValue(FlagsOf(cc), "compress") = [set |-> TRUE, v |-> b2]
       /\ FlagsOf(vc) = [compress |-> b, volatile |-> TRUE]
       /\ DOMAIN FlagsOf(cc) \subseteq {"compress", "volatile"}
       /\ RoomsOf(cb) = RoomsOf(r) /\ ExceptOf(cb) = ExceptOf(r)
       /\ RoomsOf(v) = RoomsOf(r) /\ ExceptOf(v) = ExceptOf(r)

\* compress(false) was called on an operator obtained by compress(true): the
\* second operator has the flag false, the first still true
C16_Witness ==
  /\ Len(ops) = 2
  /\ flagObjs[ops[1].flags] = [compress |-> TRUE]
  /\ flagObjs[ops[2].flags] = [compress |-> FALSE]
  /\ ops[2].rooms = ops[1].rooms

\* --------------------------------------------------------------------- C17
\* what call c does up to its await when nothing else is going on: the
\* method of c on the receiver of c with the input of c
Alone(c) ==
  LET r == ReceiverOf(c)
      inp == calls[c].input
  IN CASE calls[c].method = "emit" -> Emit(r.H, emitters, r.op, inp.ev, inp.args)
       [] calls[c].method = "socketsJoin" -> SocketsJoin(r.H, emitters, r.op, inp.rooms)
       [] calls[c].method = "socketsLeave" -> SocketsLeave(r.H, emitters, r.op, inp.rooms)
       [] calls[c].method = "disconnectSockets" ->
            DisconnectSockets(r.H, emitters, r.op, inp.close)
       [] calls[c].method = "serverSideEmit" ->
            ServerSideEmit(emitters[calls[c].recv.idx], inp.args)

\* C17: terminal calls that run without awaiting one another do not
\* interfere: every call that does not throw has exactly one send of its
\* own, there are as many sends as such calls, and in every interleaving of
\* the calls and of the settling of their sends the request of each call is
\* the one the call makes alone.
C17_CallsIndependent ==
  /\ \A c \in Calls :
       ~Alone(c).threw =>
         /\ Cardinality(SendsOf(c)) = 1
         /\ \A i \in SendsOf(c) : <<sends[i].req>> = Alone(c).published
  /\ \A c \in Calls : Alone(c).threw => SendsOf(c) = {}
  /\ Len(sends) = Cardinality({c \in Calls : ~Alone(c).threw})

\* two calls were made before any send settled, and the send of the second
\* settled first
C17_Witness ==
  /\ Len(calls) = 2
  /\ Len(sends) = 2
  /\ sends[1].status = "pending"
  /\ sends[2].status = "fulfilled"
  /\ calls[1].state = "awaiting"
  /\ calls[2].state = "resolved"
  /\ sends[1].req # sends[2].req

\* --------------------------------------------------------------------- C18
\* call c is an emit of a name that is not reserved
IsEmit(c) ==
  IF c <= Len(calls)
    THEN calls[c].method = "emit" /\ calls[c].input.ev \notin RESERVED_EVENTS
    ELSE FALSE

\* the send of call c has settled
Settled(c) == \A i \in SendsOf(c) : sends[i].status # "pending"

\* call c has resolved to true
ResolvedTrue(c) ==
  IF c <= Len(calls)
    THEN calls[c].state = "resolved" /\ calls[c].result = "true"
    ELSE FALSE

\* C18: an emit of a name that is not reserved, on an Emitter or on an
\* operator, never fails, is resolved only once its send was issued, resolves
\* to true and nothing else, and is resolved at last once its send has
\* settled, fulfilled or rejected.
C18_EmitResolvesTrue ==
  /\ [](\A c \in Calls :
          IsEmit(c) =>
            /\ calls[c].state # "rejected"
            /\ SendsOf(c) # {}
            /\ calls[c].state = "resolved" <=> calls[c].result = "true"
            /\ calls[c].result \in {"none", "true"})
  /\ \A c \in 1..MaxCalls :
       (IF IsEmit(c) THEN Settled(c) ELSE FALSE) ~> ResolvedTrue(c)

\* an emit on an operator that targets a room has resolved to true after its
\* send was fulfilled
C18_Witness ==
  \E c \in Calls : \E i \in SendsOf(c) :
    /\ IsEmit(c)
    /\ ReceiverIsChained(c)
    /\ sends[i].status = "fulfilled"
    /\ calls[c].result = "true"

\* --------------------------------------------------------------------- C19
\* the discriminator of the message each terminal method publishes, written
\* in decimal
DecimalOf(method) ==
  CASE method = "emit" -> "3"
    [] method = "socketsJoin" -> "4"
    [] method = "socketsLeave" -> "5"
    [] method = "disconnectSockets" -> "6"
    [] method = "serverSideEmit" -> "9"

\* C19: every send holds the three attributes nsp, uid and data: nsp the
\* namespace of the emitter, uid the constant "emitter" whatever uid is
\* handed to publish, data the encoded payload; and its Message is the
\* discriminator written in decimal. This for every namespace the
\* constructor accepts.
C19_AttributeMap ==
  /\ \A c \in Calls : \A i \in SendsOf(c) :
       LET req == sends[i].req
           attrs == req.MessageAttributes
       IN /\ DOMAIN attrs = {"nsp", "uid", "data"}
          /\ attrs["nsp"] = [DataType |-> "String", StringValue |-> EmitterOfCall(c).nsp]
          /\ attrs["uid"] = [DataType |-> "String", StringValue |-> "emitter"]
          /\ attrs["data"].DataType = "Binary"
          /\ attrs["data"].BinaryValue = Encode(Payload(req))
          /\ req.Message = DecimalOf(calls[c].method)
  /\ \A uid \in {"emitter", "other"} :
       PublishCommand(SnsClient, TopicArn, MessageType.BROADCAST, DefaultNsp, uid,
                      [packet |-> <<>>]).MessageAttributes["uid"].StringValue = "emitter"

\* --------------------------------------------------------------------- C20
\* the numbers of RequestType, written as publish writes a discriminator
RequestTypeNumbers == {ToString(RequestType[k]) : k \in DOMAIN RequestType}

\* C20 as stated: the discriminator of an emit is none of the RequestType
\* numbers, and messages of different kinds have different discriminators.
C20_DiscriminatorsDistinct ==
  /\ \A c \in Calls : \A i \in SendsOf(c) :
       calls[c].method = "emit" => sends[i].req.Message \notin RequestTypeNumbers
  /\ \A c, d \in Calls : \A i \in SendsOf(c), j \in SendsOf(d) :
       calls[c].method # calls[d].method => sends[i].req.Message # sends[j].req.Message

\* C20, amended: messages of different kinds (broadcast, join, leave,
\* disconnect, cross-server emit) have different discriminators and messages
\* of one kind the same, the numbers being those of MessageType: 3, 4, 5, 6
\* and 9; the number of a broadcast is that of RequestType.REMOTE_LEAVE.
C20_KindsDistinct ==
  /\ \A c, d \in Calls : \A i \in SendsOf(c), j \in SendsOf(d) :
       (calls[c].method = calls[d].method)
         <=> (sends[i].req.Message = sends[j].req.Message)
  /\ \A c \in Calls : \A i \in SendsOf(c) :
       /\ sends[i].req.Message \in {"3", "4", "5", "6", "9"}
       /\ calls[c].method = "emit" =>
            sends[i].req.Message = ToString(RequestType.REMOTE_LEAVE)

\* an emit and a socketsLeave were both published, as "3" and as "5"
C20_Witness ==
  \E c, d \in Calls : \E i \in SendsOf(c), j \in SendsOf(d) :
    /\ calls[c].method = "emit"
    /\ calls[d].method = "socketsLeave"
    /\ sends[i].req.Message = "3"
    /\ sends[j].req.Message = "5"

\* --------------------------------------------------------------------- C21
\* C21: the result of a terminal method is settled only after the send it
\* issued has settled: while the send is pending the call is still at its
\* await, without a result, however long that lasts, and a call that has
\* resolved has a send that was fulfilled or rejected; the request, with its
\* encoded payload, is complete when the call reaches the await.
C21_SettlesAfterSend ==
  \A c \in Calls : \A i \in SendsOf(c) :
    /\ sends[i].status = "pending" =>
         (calls[c].state = "awaiting" /\ calls[c].result = "none")
    /\ calls[c].state = "resolved" => sends[i].status \in {"fulfilled", "rejected"}
    /\ calls[c].state = "awaiting" =>
         /\ "data" \in DOMAIN sends[i].req.MessageAttributes
         /\ sends[i].req.MessageAttributes["data"].BinaryValue
              = Alone(c).published[1].MessageAttributes["data"].BinaryValue
         /\ sends[i].req.Message = DecimalOf(calls[c].method)

\* of two calls, the first is still at its await with its send pending,
\* while the second has resolved after its send was rejected
C21_Witness ==
  /\ Len(calls) = 2
  /\ \E i \in SendsOf(1) : sends[i].status = "pending"
  /\ calls[1].state = "awaiting"
  /\ calls[1].result = "none"
  /\ \E j \in SendsOf(2) : sends[j].status = "rejected"
  /\ calls[2].state = "resolved"

\* --------------------------------------------------------------------- C22
\* the try block of the publish of call c raised
Faulted(c) == IF c <= Len(calls) THEN calls[c].fault # "none" ELSE FALSE

\* call c has resolved with the value its method returns
ResolvedAsPublished(c) ==
  IF c <= Len(calls)
    THEN /\ calls[c].state = "resolved"
         /\ calls[c].error = NoError
         /\ calls[c].result = IF calls[c].method = "emit" THEN "true" ELSE "undefined"
    ELSE FALSE

\* C22: when encode or the building of the command raises inside publish, no
\* send is issued for the call, the error is logged and nothing more, and
\* the call resolves all the same, emit to true: what the caller gets is
\* what it gets for a message that was published.
C22_SyncFailureSwallowed ==
  /\ [](\A c \in Calls :
          calls[c].fault # "none" =>
            /\ SendsOf(c) = {}
            /\ calls[c].state \in {"awaiting", "resolved"}
            /\ calls[c].error = NoError
            /\ calls[c].state = "resolved" => ResolvedAsPublished(c))
  /\ [](logs = Cardinality({c \in Calls : calls[c].fault # "none"})
                + Cardinality({i \in 1..Len(sends) : sends[i].status = "rejected"}))
  /\ [](\A c, d \in Calls :
          (/\ calls[c].method = calls[d].method
           /\ calls[c].state = "resolved" /\ calls[d].state = "resolved") =>
            /\ calls[c].result = calls[d].result
            /\ calls[c].error = calls[d].error)
  /\ \A c \in 1..MaxCalls : Faulted(c) ~> ResolvedAsPublished(c)

\* encode raised in the publish of an emit: nothing was sent, the error was
\* logged, and the emit resolved to true, as did one that was published
C22_Witness ==
  /\ Len(calls) = 2
  /\ calls[1].method = "emit" /\ calls[1].fault = "encode"
  /\ calls[2].method = "emit" /\ calls[2].fault = "none"
  /\ SendsOf(1) = {}
  /\ \E i \in SendsOf(2) : sends[i].status = "fulfilled"
  /\ logs = 1
  /\ calls[1].state = "resolved" /\ calls[1].result = "true"
  /\ calls[2].state = "resolved" /\ calls[2].result = "true"

====
